---- MODULE Spec2Model ----
(***************************************************************************)
(* Two peers of the networked chess GUI (src/src/main.rs) talking through  *)
(* the session protocol of src/src/network.rs: the Start handshake, the    *)
(* polling main loop, the move selector with its promotion prompt and the  *)
(* restart/quit menu.  The rule engine (crate `chess`) and the wire codec  *)
(* (crate `chess_networking`) are external; they are modelled by a small   *)
(* finite game and by a tag/length byte layout.                             *)
(*                                                                         *)
(* Strings are sequences of ASCII codes, Option<T> is <<>> or <<v>>.       *)
(***************************************************************************)
EXTENDS Naturals, Integers, Sequences, FiniteSets, TLC

VARIABLES
    desired,          \* desired_start handed to handle_setup, per peer
    start,            \* Option<Start>: what handle_setup returned
    pc,               \* where each peer's main() is
    wire,             \* bytes written to a peer's socket and not yet read by it
    link,             \* the TCP connection: "up" or "reset"
    our_turn,         \* main.rs:55
    game_state,       \* main.rs:81, read at the top of the iteration
    board,            \* the ChessBoard (a position of the rule engine)
    moves,            \* move_selector.moves
    selected_square,  \* move_selector.selected_square
    promotion_move,   \* move_selector.promotion_move
    promotion_prompt, \* move_selector.promotion_prompt (the PromotionUI origin)
    move_str,         \* Option: main.rs:84, the string rebuilt from the Move received in this iteration
    sent              \* Option: the last move string finalized locally and the Move passed to send_move

vars == <<desired, start, pc, wire, link, our_turn, game_state, board, moves,
          selected_square, promotion_move, promotion_prompt, move_str, sent>>

Peers == {"host", "joiner"}

Other(p) == IF p = "host" THEN "joiner" ELSE "host"

None == <<>>

Some(v) == <<v>>

Range(s) == {s[i] : i \in 1..Len(s)}

-----------------------------------------------------------------------------
(* Window geometry, main.rs:8-10, 177-182, 342-346 *)

WINDOW_WIDTH == 1024

WINDOW_HEIGHT == 1024

RECT_WIDTH == WINDOW_WIDTH \div 8

BUTTON_WIDTH == 300

BUTTON_HEIGHT == 100

BUTTON_PAD == 50

BUTTON_X == WINDOW_WIDTH \div 2 - BUTTON_WIDTH \div 2

BUTTON_Y == WINDOW_HEIGHT \div 2

BUTTON_DIFF == BUTTON_HEIGHT - BUTTON_PAD \div 2

HEIGHT_PAD == 10

EDGE_PAD == 25

PIECE_RECT_SIZE == RECT_WIDTH

PROMO_WIDTH == PIECE_RECT_SIZE * 4 + 2 * EDGE_PAD

PROMO_HEIGHT == PIECE_RECT_SIZE + 2 * HEIGHT_PAD

\* Rectangle::check_collision_point_rec
CheckCollision(rx, ry, rw, rh, x, y) ==
    /\ x >= rx
    /\ x < rx + rw
    /\ y >= ry
    /\ y < ry + rh

-----------------------------------------------------------------------------
(* Move strings, main.rs:415-429 *)

\* "<file><rank><file><rank>" with files 1..8 for 'a'..'h' (ASCII 97.., 49..)
Mv(f1, r1, f2, r2) == <<96 + f1, 48 + r1, 96 + f2, 48 + r2>>

is_promotion(m) == Len(m) > 4 /\ m[5] # 101

square(s) ==
    LET x0 == s[1] - 97
        y0 == 8 - (s[2] - 48)
    IN  y0 * 8 + x0

move_squares(s) == <<square(SubSeq(s, 1, 2)), square(SubSeq(s, 3, 4))>>

-----------------------------------------------------------------------------
(* The rule engine: a finite game standing for crate `chess`.              *)
(* Start -e2e4-> Open -e7e5-> Mid; Mid offers an en-passant capture        *)
(* ("e5d6e") and the four promotions of e7e8; Reply offers quiet moves      *)
(* into a draw by rule and into mate.                                       *)

InitialBoard == "Start"

Positions == {"Start", "Open", "Mid", "Reply", "Rule", "Mate", "Stale"}

Promotions(m4) == <<Append(m4, 113), Append(m4, 114), Append(m4, 98), Append(m4, 110)>>

\* ChessBoard::get_moves
EngineMoves(pos) ==
    CASE pos = "Start" -> <<Mv(5, 2, 5, 4)>>
      [] pos = "Open"  -> <<Mv(5, 7, 5, 5)>>
      [] pos = "Mid"   -> <<Append(Mv(5, 5, 4, 6), 101)>> \o Promotions(Mv(5, 7, 5, 8))
      [] pos = "Reply" -> <<Mv(5, 7, 5, 5), Mv(5, 4, 5, 5), Mv(4, 6, 5, 7)>>
      [] pos = "Rule"  -> Promotions(Mv(5, 7, 5, 8))
      [] OTHER         -> <<>>

\* the position a legal move leads to
EngineNext(pos, m) ==
    CASE pos = "Start" -> "Open"
      [] pos = "Open"  -> "Mid"
      [] pos = "Mid"   -> IF Len(m) > 4 /\ m[5] = 113 THEN "Mate"
                          ELSE IF Len(m) > 4 /\ m[5] = 114 THEN "Stale"
                          ELSE "Reply"
      [] pos = "Reply" -> IF m = Mv(5, 7, 5, 5) THEN "Mid"
                          ELSE IF m = Mv(5, 4, 5, 5) THEN "Rule"
                          ELSE "Mate"
      [] pos = "Rule"  -> "Reply"
      [] OTHER         -> pos

\* ChessBoard::current_gamestate
EngineStatus(pos) ==
    CASE pos = "Mate"  -> "Checkmate"
      [] pos = "Stale" -> "Draw"
      [] pos = "Rule"  -> "Draw"
      [] OTHER         -> "InProgress"

Terminal(gs) == gs = "Checkmate" \/ gs = "Draw"

\* legal moves of pos with the same from and to squares as m
SameSquares(pos, m) ==
    LET ms == EngineMoves(pos)
    IN  {i \in 1..Len(ms) : move_squares(ms[i]) = move_squares(m)}

\* ChessBoard::make_move: a listed move is applied; what the engine does with a
\* string that is not in its list is not fixed by this repository: it may
\* leave the board alone or apply the first listed move between the squares.
MakeMove(pos, m) ==
    IF m \in Range(EngineMoves(pos))
    THEN {EngineNext(pos, m)}
    ELSE {pos} \cup
         (IF Len(m) >= 4 /\ SameSquares(pos, m) # {}
          THEN LET i == CHOOSE i \in SameSquares(pos, m) :
                            \A j \in SameSquares(pos, m) : i <= j
               IN  {EngineNext(pos, EngineMoves(pos)[i])}
          ELSE {})

-----------------------------------------------------------------------------
(* The wire codec of crate `chess_networking` (TryFrom/TryInto between the  *)
(* records and byte vectors): booleans and option tags are one byte,        *)
(* strings carry a length byte.                                             *)

Bit(b) == IF b THEN 1 ELSE 0

EncStr(s) == <<Len(s)>> \o s

EncOptStr(o) == IF o = None THEN <<0>> ELSE <<1>> \o EncStr(o[1])

EncOptInt(o) == IF o = None THEN <<0>> ELSE <<1, o[1]>>

\* Vec<u8>::try_from(Start)
EncodeStart(s) ==
    <<Bit(s.is_white)>> \o EncStr(s.name) \o EncOptStr(s.fen)
        \o EncOptInt(s.time) \o EncOptInt(s.inc)

\* the bytes after a length-prefixed string at the head of b
AfterStr(b) == SubSeq(b, 2 + b[1], Len(b))

AfterOptStr(b) == IF b[1] = 0 THEN Tail(b) ELSE AfterStr(Tail(b))

AfterOptInt(b) == IF b[1] = 0 THEN Tail(b) ELSE Tail(Tail(b))

DecOptStr(b) == IF b[1] = 0 THEN None ELSE Some(SubSeq(b, 3, 2 + b[2]))

DecOptInt(b) == IF b[1] = 0 THEN None ELSE Some(b[2])

\* Start::try_from(&[u8]); Ok on what EncodeStart writes
DecodeStart(b) ==
    LET r1 == Tail(b)
        r2 == AfterStr(r1)
        r3 == AfterOptStr(r2)
        r4 == AfterOptInt(r3)
    IN  [is_white |-> b[1] = 1,
         name     |-> SubSeq(r1, 2, 1 + r1[1]),
         fen      |-> DecOptStr(r2),
         time     |-> DecOptInt(r3),
         inc      |-> DecOptInt(r4)]

\* PromotionPiece as Option: 1 Knight, 2 Bishop, 3 Rook, 4 Queen
EncOptPiece(o) == IF o = None THEN 0 ELSE o[1]

\* Vec<u8>::try_from(Move)
EncodeMove(m) ==
    <<m.from[1], m.from[2], m.to[1], m.to[2],
      EncOptPiece(m.promotion), Bit(m.forfeit), Bit(m.ofer_draw)>>

\* Move::try_from(&[u8]) succeeds on a buffer holding exactly one Move
MoveDecodes(b) == Len(b) = 7

DecodeMove(b) ==
    [from      |-> <<b[1], b[2]>>,
     to        |-> <<b[3], b[4]>>,
     promotion |-> IF b[5] = 0 THEN None ELSE Some(b[5]),
     forfeit   |-> b[6] = 1,
     ofer_draw |-> b[7] = 1]

-----------------------------------------------------------------------------
(* Session protocol, network.rs *)

\* TcpStream::read: what one read call sees.  A reset connection is an
\* error, an empty socket of a live peer would block, an empty socket of a
\* peer that is gone is end of file (Ok(0)); otherwise the pending bytes.
ReadOutcome(p) ==
    IF link = "reset" THEN "Err"
    ELSE IF wire[p] # <<>> THEN "Data"
    ELSE IF pc[Other(p)] \in {"quit", "crashed"} THEN "Eof"
    ELSE "WouldBlock"

\* TcpStream::write fails on a reset connection
WriteFails == link = "reset"

\* a reply that forgets to negate the colour
ServerReplyEcho(desired_start) == desired_start

\* network.rs:56-57: what the host sends to the joiner
ServerReply(desired_start) ==
    [desired_start EXCEPT !.is_white = ~desired_start.is_white]

\* main.rs:55
InitialTurn(s) == s.is_white = FALSE

\* main.rs:70-78: the board and the selector main() builds after the handshake
EnterLoop(p, s) ==
    /\ start' = [start EXCEPT ![p] = Some(s)]
    /\ our_turn' = [our_turn EXCEPT ![p] = InitialTurn(s)]
    /\ board' = [board EXCEPT ![p] = InitialBoard]
    /\ moves' = [moves EXCEPT ![p] = EngineMoves(InitialBoard)]
    /\ selected_square' = [selected_square EXCEPT ![p] = None]
    /\ promotion_prompt' = [promotion_prompt EXCEPT ![p] = None]
    /\ promotion_move' = [promotion_move EXCEPT ![p] = None]
    /\ pc' = [pc EXCEPT ![p] = "poll"]

\* a panic (an unwrap on Err) ends the process
Crash(p) == pc' = [pc EXCEPT ![p] = "crashed"]

\* a joiner that goes on to read without having written its request
ClientSendStartSkip ==
    /\ pc["joiner"] = "setup_write"
    /\ pc' = [pc EXCEPT !["joiner"] = "setup_read"]
    /\ UNCHANGED <<desired, start, wire, link, our_turn, game_state, board, moves,
                   selected_square, promotion_move, promotion_prompt, move_str, sent>>

\* Client::handle_setup, network.rs:120-121: the joiner writes its request
ClientSendStart ==
    /\ pc["joiner"] = "setup_write"
    /\ IF WriteFails
       THEN /\ Crash("joiner")
            /\ UNCHANGED wire
       ELSE /\ wire' = [wire EXCEPT !["host"] = @ \o EncodeStart(desired["joiner"])]
            /\ pc' = [pc EXCEPT !["joiner"] = "setup_read"]
    /\ UNCHANGED <<desired, start, link, our_turn, game_state, board, moves,
                   selected_square, promotion_move, promotion_prompt, move_str, sent>>

\* Server::handle_setup, network.rs:51-63, then main.rs:55-78
ServerHandleSetup ==
    /\ pc["host"] = "setup_read"
    /\ ReadOutcome("host") # "WouldBlock"
    /\ IF ReadOutcome("host") # "Data" \/ WriteFails
       THEN /\ Crash("host")
            /\ UNCHANGED <<wire, start, our_turn, board, moves, selected_square,
                           promotion_move, promotion_prompt>>
       ELSE /\ wire' = [wire EXCEPT !["host"] = <<>>,
                                    !["joiner"] = @ \o EncodeStart(ServerReply(desired["host"]))]
            /\ EnterLoop("host", desired["host"])
    /\ UNCHANGED <<desired, link, game_state, move_str, sent>>

\* Client::handle_setup, network.rs:123-127, then main.rs:55-78
ClientReceiveStart ==
    /\ pc["joiner"] = "setup_read"
    /\ ReadOutcome("joiner") # "WouldBlock"
    /\ IF ReadOutcome("joiner") # "Data"
       THEN /\ Crash("joiner")
            /\ UNCHANGED <<wire, start, our_turn, board, moves, selected_square,
                           promotion_move, promotion_prompt>>
       ELSE /\ wire' = [wire EXCEPT !["joiner"] = <<>>]
            /\ EnterLoop("joiner", DecodeStart(wire["joiner"]))
    /\ UNCHANGED <<desired, link, game_state, move_str, sent>>

\* the connection is reset by the network
LinkReset ==
    /\ link = "up"
    /\ link' = "reset"
    /\ UNCHANGED <<desired, start, pc, wire, our_turn, game_state, board, moves,
                   selected_square, promotion_move, promotion_prompt, move_str, sent>>

-----------------------------------------------------------------------------
(* Input events of one frame: the mouse position and whether the left      *)
(* button was pressed in this frame.                                        *)

NoClick == [pressed |-> FALSE, x |-> 0, y |-> 0]

\* e2, e4 (inside Quit), e5 (inside Restart), d6, e8, and e7/f7/g7/h7, which
\* lie inside the four piece rectangles of a prompt opened by a click on e8
ClickPoints ==
    {<<576, 832>>, <<576, 600>>, <<576, 480>>, <<448, 320>>, <<576, 64>>,
     <<551, 138>>, <<679, 138>>, <<807, 138>>, <<935, 138>>}

Events == {NoClick} \cup {[pressed |-> TRUE, x |-> pt[1], y |-> pt[2]] : pt \in ClickPoints}

\* main.rs:280
ClickedSquare(ev) == (ev.y \div RECT_WIDTH) * 8 + ev.x \div RECT_WIDTH

\* PromotionUI::new, main.rs:348-367
PromotionUINew(x, y) ==
    LET y1 == IF y + PROMO_HEIGHT > WINDOW_HEIGHT
              THEN y - ((y + PROMO_HEIGHT) - WINDOW_HEIGHT) ELSE y
        x1 == IF x + PROMO_WIDTH > WINDOW_WIDTH
              THEN x - ((x + PROMO_WIDTH) - WINDOW_WIDTH) ELSE x
    IN  [x |-> x1, y |-> y1]

\* piece_rects[idx] of a PromotionUI hit by the point
PieceRectHit(ui, idx, x, y) ==
    CheckCollision(ui.x + idx * PIECE_RECT_SIZE + EDGE_PAD, ui.y + HEIGHT_PAD,
                   RECT_WIDTH, RECT_WIDTH, x, y)

\* main.rs:376-382: 'n', 'b', 'r', 'q'
PieceChar(idx) ==
    CASE idx = 0 -> 110
      [] idx = 1 -> 98
      [] idx = 2 -> 114
      [] idx = 3 -> 113

\* an update that answers every pressed click with the Queen
PromotionUIUpdateDefault(ui, ev) == IF ~ev.pressed THEN None ELSE Some(113)

\* PromotionUI::update, main.rs:369-387
PromotionUIUpdate(ui, ev) ==
    LET hits == {idx \in 0..3 : PieceRectHit(ui, idx, ev.x, ev.y)}
    IN  IF ~ev.pressed \/ hits = {} THEN None
        ELSE Some(PieceChar(CHOOSE i \in hits : \A j \in hits : i <= j))

\* Menu::update, main.rs:184-205: Some(TRUE) is Restart, Some(FALSE) is Quit
MenuUpdate(ev) ==
    IF ~ev.pressed THEN None
    ELSE IF CheckCollision(BUTTON_X, BUTTON_Y - BUTTON_DIFF, BUTTON_WIDTH, BUTTON_HEIGHT,
                           ev.x, ev.y) THEN Some(TRUE)
    ELSE IF CheckCollision(BUTTON_X, BUTTON_Y + BUTTON_DIFF, BUTTON_WIDTH, BUTTON_HEIGHT,
                           ev.x, ev.y) THEN Some(FALSE)
    ELSE None

\* main.rs:312: the first legal move between the two squares
FindMove(ms, from, to) ==
    LET hit == {i \in 1..Len(ms) : move_squares(ms[i]) = <<from, to>>}
    IN  IF hit = {} THEN None
        ELSE Some(ms[CHOOSE i \in hit : \A j \in hit : i <= j])

\* the piece code pushed without the pop
SubstituteAppend(m, c) == Append(m, c)

\* main.rs:289-291: the last character replaced by the chosen piece
Substitute(m, c) == Append(SubSeq(m, 1, Len(m) - 1), c)

Selection(sq, pm, pp, out) ==
    [selected_square |-> sq, promotion_move |-> pm, promotion_prompt |-> pp,
     out |-> out, panic |-> FALSE]

\* a promotion emitted with the prompt closed but the pending move kept
EmitPromotionKeepMove(m, c) == Selection(None, Some(m), None, Some(Substitute(m, c)))

\* main.rs:289-297: the chosen piece replaces the last character and the
\* selector is cleared
EmitPromotion(m, c) == Selection(None, None, None, Some(Substitute(m, c)))

\* a finalized move that leaves the from-square selected
EmitQuietKeep(sq, pm, pp, m) == Selection(sq, pm, pp, Some(m))

\* main.rs:325-327: the selection is cleared and the move returned
EmitQuiet(sq, pm, pp, m) == Selection(None, pm, pp, Some(m))

\* MoveSelector::on_update, main.rs:277-332, on the selector (sq, pm, pp, ms)
on_update(sq, pm, pp, ms, ev) ==
    IF pm # None
    THEN IF pp = None
         THEN [Selection(sq, pm, pp, None) EXCEPT !.panic = TRUE]
         ELSE LET c == PromotionUIUpdate(pp[1], ev)
              IN  IF c # None
                  THEN EmitPromotion(pm[1], c[1])
                  ELSE Selection(sq, pm, pp, None)
    ELSE IF ev.pressed
    THEN IF sq = None
         THEN Selection(Some(ClickedSquare(ev)), pm, pp, None)
         ELSE LET valid_move == FindMove(ms, sq[1], ClickedSquare(ev))
              IN  IF valid_move = None
                  THEN Selection(None, pm, pp, None)
                  ELSE IF is_promotion(valid_move[1])
                  THEN Selection(sq, valid_move, Some(PromotionUINew(ev.x, ev.y)), None)
                  ELSE EmitQuiet(sq, pm, pp, valid_move[1])
    ELSE Selection(sq, pm, pp, None)

-----------------------------------------------------------------------------
(* The main loop, main.rs:80-139 *)

\* main.rs:84-89
RebuildMoveStr(m) ==
    <<(97 + m.from[1]) % 256, (56 - m.from[2]) % 256,
      (97 + m.to[1]) % 256, (56 - m.to[2]) % 256>>

\* a Move with from and to exchanged
MoveRecordSwapped(m) ==
    LET from == move_squares(m)[2]
        to   == move_squares(m)[1]
    IN  [from      |-> <<(from % 256) % 8, (from % 256) \div 8>>,
         to        |-> <<(to % 256) % 8, (to % 256) \div 8>>,
         promotion |-> None,
         forfeit   |-> FALSE,
         ofer_draw |-> FALSE]

\* main.rs:114-120
MoveRecord(m) ==
    LET from == move_squares(m)[1]
        to   == move_squares(m)[2]
    IN  [from      |-> <<(from % 256) % 8, (from % 256) \div 8>>,
         to        |-> <<(to % 256) % 8, (to % 256) \div 8>>,
         promotion |-> None,
         forfeit   |-> FALSE,
         ofer_draw |-> FALSE]

\* a turn that is kept instead of flipped
FlipTurnKeep(t) == t

\* a turn that is set instead of flipped
FlipTurnSet(t) == TRUE

\* main.rs:93 and main.rs:125
FlipTurn(t) == ~t

\* a receive_move that propagates every read error with `?`
ReceiveMovePropagates(p) ==
    CASE ReadOutcome(p) \in {"Err", "WouldBlock", "Eof"} -> "Panic"
      [] OTHER -> IF MoveDecodes(wire[p]) THEN "Some" ELSE "Panic"

\* Server/Client::receive_move, network.rs:72-81 and 137-146: "None", "Some"
\* or "Panic" (the unwrap of a failed decode)
ReceiveMove(p) ==
    CASE ReadOutcome(p) \in {"Err", "WouldBlock"} -> "None"
      [] ReadOutcome(p) = "Eof" -> "Panic"
      [] OTHER -> IF MoveDecodes(wire[p]) THEN "Some" ELSE "Panic"

\* main.rs:80: the window was closed
CloseWindow(p) ==
    /\ pc[p] = "poll"
    /\ pc' = [pc EXCEPT ![p] = "quit"]
    /\ UNCHANGED <<desired, start, wire, link, our_turn, game_state, board, moves,
                   selected_square, promotion_move, promotion_prompt, move_str, sent>>

\* main.rs:81-94: the top of an iteration and the network poll
Poll(p) ==
    /\ pc[p] = "poll"
    /\ game_state' = [game_state EXCEPT ![p] = EngineStatus(board[p])]
    /\ CASE ReceiveMove(p) = "None" ->
              /\ move_str' = [move_str EXCEPT ![p] = None]
              /\ pc' = [pc EXCEPT ![p] = "input"]
              /\ UNCHANGED <<wire, board, moves, our_turn>>
         [] ReceiveMove(p) = "Panic" ->
              /\ Crash(p)
              /\ wire' = [wire EXCEPT ![p] = <<>>]
              /\ UNCHANGED <<move_str, board, moves, our_turn>>
         [] OTHER ->
              LET s == RebuildMoveStr(DecodeMove(wire[p]))
              IN  /\ wire' = [wire EXCEPT ![p] = <<>>]
                  /\ move_str' = [move_str EXCEPT ![p] = Some(s)]
                  /\ \E b \in MakeMove(board[p], s) :
                        /\ board' = [board EXCEPT ![p] = b]
                        /\ moves' = [moves EXCEPT ![p] = EngineMoves(b)]
                  /\ our_turn' = [our_turn EXCEPT ![p] = FlipTurn(@)]
                  /\ pc' = [pc EXCEPT ![p] = "input"]
    /\ UNCHANGED <<desired, start, link, selected_square, promotion_move,
                   promotion_prompt, sent>>

\* main.rs:96-139: local input, the send of a finalized move, the menu
Input(p, ev) ==
    /\ pc[p] = "input"
    /\ IF ~our_turn[p]
       THEN /\ pc' = [pc EXCEPT ![p] = "poll"]
            /\ UNCHANGED <<wire, our_turn, board, moves, selected_square,
                           promotion_move, promotion_prompt, sent>>
       ELSE LET u == on_update(selected_square[p], promotion_move[p],
                               promotion_prompt[p], moves[p], ev)
                menu == IF Terminal(game_state[p]) THEN MenuUpdate(ev) ELSE None
            IN  IF u.panic \/ (u.out # None /\ WriteFails)
                THEN /\ Crash(p)
                     /\ UNCHANGED <<wire, our_turn, board, moves, selected_square,
                                    promotion_move, promotion_prompt, sent>>
                ELSE /\ selected_square' = [selected_square EXCEPT ![p] = u.selected_square]
                     /\ promotion_move' = [promotion_move EXCEPT ![p] = u.promotion_move]
                     /\ promotion_prompt' = [promotion_prompt EXCEPT ![p] = u.promotion_prompt]
                     /\ IF u.out # None
                        THEN /\ wire' = [wire EXCEPT ![Other(p)] =
                                            @ \o EncodeMove(MoveRecord(u.out[1]))]
                             /\ sent' = [sent EXCEPT ![p] =
                                            Some([m |-> u.out[1], rec |-> MoveRecord(u.out[1])])]
                             /\ our_turn' = [our_turn EXCEPT ![p] = FlipTurn(@)]
                             /\ \E b \in MakeMove(board[p], u.out[1]) :
                                   LET b2 == IF menu = Some(TRUE) THEN InitialBoard ELSE b
                                   IN  /\ board' = [board EXCEPT ![p] = b2]
                                       /\ moves' = [moves EXCEPT ![p] = EngineMoves(b2)]
                        ELSE /\ UNCHANGED <<wire, sent, our_turn>>
                             /\ IF menu = Some(TRUE)
                                THEN /\ board' = [board EXCEPT ![p] = InitialBoard]
                                     /\ moves' = [moves EXCEPT ![p] = EngineMoves(InitialBoard)]
                                ELSE UNCHANGED <<board, moves>>
                     /\ pc' = [pc EXCEPT ![p] = IF menu = Some(FALSE) THEN "quit" ELSE "poll"]
    /\ move_str' = [move_str EXCEPT ![p] = None]
    /\ UNCHANGED <<desired, start, link, game_state>>

-----------------------------------------------------------------------------
(* Specifications *)

ServerName == <<115, 101, 114, 118, 101, 114>>

ClientName == <<99, 108, 105, 101, 110, 116>>

\* main.rs:45-52: the request main() builds for each role
MainRequest(p) ==
    [is_white |-> p = "host",
     name     |-> IF p = "host" THEN ServerName ELSE ClientName,
     fen      |-> None,
     time     |-> None,
     inc      |-> None]

\* Start values handle_setup may be called with
StartRequests ==
    [is_white : BOOLEAN,
     name     : {ServerName, ClientName},
     fen      : {None, Some(<<56, 47, 56>>)},
     time     : {None, Some(5)},
     inc      : {None, Some(2)}]

InitWith(d) ==
    /\ desired = d
    /\ start = [p \in Peers |-> None]
    /\ pc = [p \in Peers |-> IF p = "host" THEN "setup_read" ELSE "setup_write"]
    /\ wire = [p \in Peers |-> <<>>]
    /\ link = "up"
    /\ our_turn = [p \in Peers |-> FALSE]
    /\ game_state = [p \in Peers |-> "InProgress"]
    /\ board = [p \in Peers |-> InitialBoard]
    /\ moves = [p \in Peers |-> <<>>]
    /\ selected_square = [p \in Peers |-> None]
    /\ promotion_move = [p \in Peers |-> None]
    /\ promotion_prompt = [p \in Peers |-> None]
    /\ move_str = [p \in Peers |-> None]
    /\ sent = [p \in Peers |-> None]

Init == InitWith([p \in Peers |-> MainRequest(p)])

Next ==
    \/ ClientSendStart
    \/ ServerHandleSetup
    \/ ClientReceiveStart
    \/ LinkReset
    \/ \E p \in Peers : CloseWindow(p)
    \/ \E p \in Peers : Poll(p)
    \/ \E p \in Peers : \E ev \in Events : Input(p, ev)

Spec == Init /\ [][Next]_vars

\* Both processes keep running: a blocking write or read of handle_setup
\* returns once it can (network.rs:51-63, 119-128), and the loop of main.rs:80
\* goes on to its next poll and its next input step.
SpecFair ==
    /\ Spec
    /\ WF_vars(ClientSendStart)
    /\ WF_vars(ServerHandleSetup)
    /\ WF_vars(ClientReceiveStart)
    /\ \A p \in Peers : WF_vars(Poll(p)) /\ WF_vars(\E ev \in Events : Input(p, ev))

\* the handshake alone, for every pair of requests
InitSetup == \E d \in [Peers -> StartRequests] : InitWith(d)

NextSetup ==
    \/ ClientSendStart
    \/ ServerHandleSetup
    \/ ClientReceiveStart
    \/ LinkReset

SpecSetup == InitSetup /\ [][NextSetup]_vars

-----------------------------------------------------------------------------
(* Properties *)

InLoop(p) == pc[p] \in {"poll", "input"}

\* C1: when both handle_setup calls have returned, the two Start values have
\* opposite is_white and equal name, fen, time and inc, and the joiner's
\* is_white is the negation of the host's request, whatever the joiner asked.
C1_ComplementaryAgreement ==
    (start["host"] # None /\ start["joiner"] # None) =>
        LET h == start["host"][1]
            j == start["joiner"][1]
        IN  /\ h.is_white # j.is_white
            /\ h.name = j.name
            /\ h.fen = j.fen
            /\ h.time = j.time
            /\ h.inc = j.inc
            /\ j.is_white = ~desired["host"].is_white

\* both ends returned although the joiner asked for the host's colour, under
\* another name and without the host's starting position
C1_Witness ==
    /\ start["host"] # None
    /\ start["joiner"] # None
    /\ desired["joiner"].is_white = desired["host"].is_white
    /\ desired["joiner"].name # desired["host"].name
    /\ desired["host"].fen # None
    /\ desired["joiner"].fen = None

\* C2: after the handshake a peer starts in LocalTurn (our_turn) exactly when
\* the Start it got back grants it White.
C2_WhiteStartsLocalTurn ==
    \A p \in Peers :
        start[p] # None => our_turn[p] = start[p][1].is_white

\* C3: at most one peer has our_turn at any time.
C3_SingleTurnOwner == ~(our_turn["host"] /\ our_turn["joiner"])

\* the host holds the turn after both sides have sent moves and the host has
\* restarted its board
C3_Witness ==
    /\ our_turn["host"]
    /\ ~our_turn["joiner"]
    /\ sent["host"] # None
    /\ sent["joiner"] # None
    /\ board["host"] = InitialBoard
    /\ InLoop("joiner")

\* C4: the string the receiver rebuilds from a received non-promotion move is
\* the string the sender applied, and names the same squares.
C4_RebuiltEqualsSent ==
    \A p \in Peers :
        (move_str[p] # None /\ sent[Other(p)] # None
            /\ ~is_promotion(sent[Other(p)][1].m))
            => /\ move_squares(move_str[p][1]) = move_squares(sent[Other(p)][1].m)
               /\ move_str[p][1] = sent[Other(p)][1].m

\* 'n', 'b', 'r', 'q' as the PromotionPiece sent on the wire
PieceOfChar(c) ==
    CASE c = 110 -> 1
      [] c = 98  -> 2
      [] c = 114 -> 3
      [] OTHER   -> 4

\* C5: a finalized promotion is sent with its promotion piece, and the
\* receiver rebuilds the same promotion move.
C5_PromotionCarried ==
    \A p \in Peers :
        (sent[p] # None /\ is_promotion(sent[p][1].m))
            => /\ sent[p][1].rec.promotion = Some(PieceOfChar(sent[p][1].m[5]))
               /\ (move_str[Other(p)] # None => move_str[Other(p)][1] = sent[p][1].m)

\* C6: every move written to the network is in the legal-move list of the
\* sender's board at the moment of sending.
C6_OnlyLegalMovesSent ==
    [][\A p \in Peers :
          (pc[p] = "input" /\ Len(wire'[Other(p)]) > Len(wire[Other(p)]))
              => sent'[p][1].m \in Range(EngineMoves(board[p]))]_vars

\* C7: an input frame handled while it is not the local turn, or while the
\* game is over, leaves the selection alone and sends nothing.
C7_InputOnlyInLocalTurn ==
    [][\A p \in Peers :
          (pc[p] = "input" /\ pc'[p] # "input"
              /\ (~our_turn[p] \/ Terminal(EngineStatus(board[p]))))
              => /\ selected_square'[p] = selected_square[p]
                 /\ promotion_move'[p] = promotion_move[p]
                 /\ promotion_prompt'[p] = promotion_prompt[p]
                 /\ wire'[Other(p)] = wire[Other(p)]]_vars

C9_ReadFailureIsFatal ==
    [][\A p \in Peers :
          (pc[p] = "poll" /\ link = "reset" /\ pc'[p] # "poll")
              => pc'[p] \in {"crashed", "quit"}]_vars

\* C10: while a peer's board is in Checkmate or Draw and it has not
\* restarted, it consumes no network move, sends and applies none, and its
\* turn ownership does not change.
C10_GameOverFreezesPlay ==
    [][\A p \in Peers :
          (InLoop(p) /\ Terminal(EngineStatus(board[p])))
              => /\ our_turn'[p] = our_turn[p]
                 /\ Len(wire'[p]) >= Len(wire[p])
                 /\ sent'[p] = sent[p]
                 /\ (board'[p] = board[p] \/ board'[p] = InitialBoard)]_vars

\* C11: a Restart decision taken in GameOver resets the board to the initial
\* position, recomputes the legal-move list from it and resets our_turn to
\* the value of the session start, LocalTurn for the side granted White.
C11_RestartResetsBoardAndTurn ==
    [][\A p \in Peers : \A ev \in Events :
          (pc[p] = "input" /\ our_turn[p] /\ Terminal(game_state[p]) /\ link = "up"
              /\ MenuUpdate(ev) = Some(TRUE) /\ Input(p, ev))
              => /\ board'[p] = InitialBoard
                 /\ moves'[p] = EngineMoves(InitialBoard)
                 /\ our_turn'[p] = start[p][1].is_white]_vars

\* the Move that names the squares from and to (file, row)
RecordOfSquares(from, to) ==
    [from      |-> <<from % 8, from \div 8>>,
     to        |-> <<to % 8, to \div 8>>,
     promotion |-> None,
     forfeit   |-> FALSE,
     ofer_draw |-> FALSE]

\* the local turn of a game in progress with a working connection
LocalTurn(p) ==
    pc[p] = "input" /\ our_turn[p] /\ game_state[p] = "InProgress" /\ link = "up"

\* non-promotion moves of the list between two squares
QuietMoves(ms, from, to) ==
    {i \in 1..Len(ms) : move_squares(ms[i]) = <<from, to>> /\ ~is_promotion(ms[i])}

\* C12: in LocalTurn with `from` selected, a click on `to` with a legal
\* non-promotion move (from, to) sends exactly one Move for that string,
\* applies it to the local board, clears the selection and gives up the turn.
C12_ClickFinalizesQuietMove ==
    [][\A p \in Peers : \A ev \in Events :
          (LocalTurn(p) /\ promotion_move[p] = None /\ selected_square[p] # None
              /\ ev.pressed
              /\ QuietMoves(moves[p], selected_square[p][1], ClickedSquare(ev)) # {}
              /\ Input(p, ev))
              => \E i \in QuietMoves(moves[p], selected_square[p][1], ClickedSquare(ev)) :
                    /\ sent'[p] = Some([m |-> moves[p][i],
                                        rec |-> RecordOfSquares(selected_square[p][1],
                                                                ClickedSquare(ev))])
                    /\ wire'[Other(p)] = wire[Other(p)] \o EncodeMove(sent'[p][1].rec)
                    /\ board'[p] = EngineNext(board[p], moves[p][i])
                    /\ moves'[p] = EngineMoves(board'[p])
                    /\ selected_square'[p] = None
                    /\ promotion_move'[p] = None
                    /\ promotion_prompt'[p] = None
                    /\ our_turn'[p] = FALSE
                    /\ pc'[p] = "poll"]_vars

\* the joiner has clicked e2 and e4: "e2e4" is sent and applied, the turn is
\* the host's and the selection is empty
C12_Witness ==
    /\ sent["joiner"] # None
    /\ sent["joiner"][1].m = Mv(5, 2, 5, 4)
    /\ wire["host"] = EncodeMove(sent["joiner"][1].rec)
    /\ board["joiner"] = "Open"
    /\ ~our_turn["joiner"]
    /\ selected_square["joiner"] = None
    /\ pc["joiner"] = "poll"

\* indices of the listed moves between two squares
Matches(ms, from, to) ==
    {i \in 1..Len(ms) : move_squares(ms[i]) = <<from, to>>}

\* the least element of a non-empty set of integers
Least(S) == CHOOSE i \in S : \A j \in S : i <= j

\* the promotion options under the click, 0 = Knight .. 3 = Queen
OptionsHit(ui, ev) == {idx \in 0..3 : PieceRectHit(ui, idx, ev.x, ev.y)}

\* the piece codes of the options: n, b, r, q
OptionCode == <<110, 98, 114, 113>>

\* C13: with `from` selected, a click on `to` whose first matching legal move
\* is a promotion emits nothing and opens the promotion prompt; a following
\* click on one of the four options emits the matched string with its last
\* character replaced by n, b, r or q and returns the selector to Idle.
C13_PromotionFlow ==
    [][\A p \in Peers : \A ev \in Events :
          /\ (LocalTurn(p) /\ promotion_move[p] = None /\ selected_square[p] # None
                 /\ ev.pressed
                 /\ Matches(moves[p], selected_square[p][1], ClickedSquare(ev)) # {}
                 /\ is_promotion(moves[p][Least(Matches(moves[p], selected_square[p][1],
                                                         ClickedSquare(ev)))])
                 /\ Input(p, ev))
                 => /\ sent'[p] = sent[p]
                    /\ wire' = wire
                    /\ board'[p] = board[p]
                    /\ our_turn'[p] = our_turn[p]
                    /\ selected_square'[p] = selected_square[p]
                    /\ promotion_move'[p] =
                           Some(moves[p][Least(Matches(moves[p], selected_square[p][1],
                                                       ClickedSquare(ev)))])
                    /\ promotion_prompt'[p] # None
          /\ (LocalTurn(p) /\ promotion_move[p] # None /\ promotion_prompt[p] # None
                 /\ ev.pressed /\ OptionsHit(promotion_prompt[p][1], ev) # {}
                 /\ Input(p, ev))
                 => /\ sent'[p] # None
                    /\ wire'[Other(p)] = wire[Other(p)] \o EncodeMove(sent'[p][1].rec)
                    /\ Len(sent'[p][1].m) = Len(promotion_move[p][1])
                    /\ \A k \in 1..(Len(promotion_move[p][1]) - 1) :
                           sent'[p][1].m[k] = promotion_move[p][1][k]
                    /\ sent'[p][1].m[Len(promotion_move[p][1])] =
                           OptionCode[Least(OptionsHit(promotion_prompt[p][1], ev)) + 1]
                    /\ selected_square'[p] = None
                    /\ promotion_move'[p] = None
                    /\ promotion_prompt'[p] = None]_vars

\* e7, e8 and the Queen option were clicked: "e7e8q" was emitted and the
\* selector is Idle again
C13_Witness ==
    \E p \in Peers :
        /\ sent[p] # None
        /\ sent[p][1].m = <<101, 55, 101, 56, 113>>
        /\ selected_square[p] = None
        /\ promotion_move[p] = None
        /\ promotion_prompt[p] = None
        /\ pc[p] = "poll"

\* C14: when the rule engine does not apply a move that reached the loop (the
\* received string is not a legal move and the board stays as it was), the
\* session ends as a fatal error and our_turn is not flipped.
C14_RejectedMoveIsFatal ==
    [][\A p \in Peers :
          (pc[p] = "poll" /\ move_str'[p] # None
              /\ move_str'[p][1] \notin Range(EngineMoves(board[p]))
              /\ board'[p] = board[p])
              => (pc'[p] = "crashed" /\ our_turn'[p] = our_turn[p])]_vars

\* C15: the loop polls receive_move only while it is not the local turn: an
\* iteration that starts in LocalTurn goes on to the input step without
\* reading the socket, so it consumes nothing, applies nothing, does not flip
\* the turn and cannot fail on the read.
C15_NoPollInLocalTurn ==
    [][\A p \in Peers :
          (pc[p] = "poll" /\ our_turn[p] /\ pc'[p] \notin {"poll", "quit"})
              => /\ pc'[p] = "input"
                 /\ wire'[p] = wire[p]
                 /\ our_turn'[p] = our_turn[p]
                 /\ board'[p] = board[p]]_vars

\* C16: whenever it is not a peer's local turn its selection state is Idle:
\* selected_square, promotion_move and promotion_prompt are all None, so no
\* selection survives the flip of the turn.
C16_IdleWhenNotLocalTurn ==
    \A p \in Peers :
        (start[p] # None /\ ~our_turn[p])
            => /\ selected_square[p] = None
               /\ promotion_move[p] = None
               /\ promotion_prompt[p] = None

\* a peer has given up the turn by a promotion it finalized through the
\* prompt, and its selector is Idle
C16_Witness ==
    \E p \in Peers :
        /\ InLoop(p) /\ ~our_turn[p]
        /\ sent[p] # None /\ is_promotion(sent[p][1].m)
        /\ selected_square[p] = None
        /\ promotion_move[p] = None
        /\ promotion_prompt[p] = None

\* the selector waits for a promotion choice
AwaitingPromotion(p) ==
    /\ pc[p] = "input" /\ our_turn[p]
    /\ promotion_move[p] # None /\ promotion_prompt[p] # None

\* C17: in AwaitingPromotion a click that hits none of the four promotion
\* rectangles, and an update with no click, change nothing: the three
\* selector fields stay, no move is emitted, and the square-selection logic
\* does not run.
C17_MissedPromotionClickIsNoOp ==
    [][\A p \in Peers : \A ev \in Events :
          (AwaitingPromotion(p)
              /\ (~ev.pressed \/ OptionsHit(promotion_prompt[p][1], ev) = {})
              /\ Input(p, ev))
              => /\ promotion_move'[p] = promotion_move[p]
                 /\ promotion_prompt'[p] = promotion_prompt[p]
                 /\ selected_square'[p] = selected_square[p]
                 /\ sent' = sent
                 /\ wire' = wire
                 /\ our_turn'[p] = our_turn[p]
                 /\ pc'[p] \in {"poll", "quit"}]_vars

\* the prompt is open and the peer is about to take its input
C17_Witness ==
    \E p \in Peers : AwaitingPromotion(p) /\ selected_square[p] # None

\* C18: once the status a peer reads is terminal, a click on Restart resets
\* its board and a click on Quit ends its loop, whichever side's turn it was
\* when the game ended.
C18_MenuAcceptedOnBothPeers ==
    [][\A p \in Peers : \A ev \in Events :
          (pc[p] = "input" /\ link = "up" /\ Terminal(game_state[p]) /\ Input(p, ev))
              => /\ MenuUpdate(ev) = Some(TRUE) => board'[p] = InitialBoard
                 /\ MenuUpdate(ev) = Some(FALSE) => pc'[p] = "quit"]_vars

\* both handle_setup calls have returned
HandshakeDone == start["host"] # None /\ start["joiner"] # None

\* C19: the handshake is ordered and cannot deadlock. The host's agreement is
\* written in the step that reads the joiner's one request, the joiner reads
\* only after it wrote, no peer polls or sends before its own handle_setup
\* returned, and while the connection stays up both calls eventually return.
C19_HandshakeOrderedAndLive ==
    /\ [](\A p \in Peers : (InLoop(p) \/ sent[p] # None) => start[p] # None)
    /\ [](start["host"] # None => pc["joiner"] # "setup_write")
    /\ [](start["joiner"] # None => start["host"] # None)
    /\ [][(start["joiner"] = None /\ wire'["joiner"] # wire["joiner"]
              /\ wire'["joiner"] # <<>>)
             => /\ pc["host"] = "setup_read"
                /\ wire["host"] = EncodeStart(desired["joiner"])
                /\ wire'["host"] = <<>>
                /\ start'["host"] # None]_vars
    /\ [][(pc["joiner"] = "setup_read" /\ pc'["joiner"] # "setup_read")
             => wire'["host"] = wire["host"]]_vars
    /\ <>(link = "reset" \/ HandshakeDone)

\* both ends are past handle_setup on a working connection
C19_Witness == HandshakeDone /\ link = "up" /\ InLoop("host") /\ InLoop("joiner")

\* the receiving iteration of p has taken a move off the socket and owns the
\* turn
Consumed(p) == move_str[p] # None /\ wire[p] = <<>> /\ our_turn[p]

\* C20: every move a peer sends is eventually consumed by the other peer's
\* loop while the connection is up and the receiver keeps running: the
\* receiver applies the move, so that its board is the sender's, and its turn
\* state becomes LocalTurn; the two peers never both wait in RemoteTurn with
\* no move in flight.
C20_SentMoveEventuallyApplied ==
    /\ \A p \in Peers :
          (InLoop(p) /\ wire[p] # <<>>)
              ~> \/ Consumed(p) /\ board[p] = board[Other(p)]
                 \/ ~InLoop(p)
                 \/ link = "reset"
    /\ []((InLoop("host") /\ InLoop("joiner") /\ ~our_turn["host"] /\ ~our_turn["joiner"])
             => (wire["host"] # <<>> \/ wire["joiner"] # <<>>))

\* the bytes waiting for p are exactly the one record the other peer sent last
OneRecordFor(p) ==
    sent[Other(p)] # None /\ wire[p] = EncodeMove(sent[Other(p)][1].rec)

\* C21: after the handshake at most one MoveRecord is written and not yet
\* read, over both directions together; a peer writes only onto an empty
\* connection while it owns the turn, and gets the turn back only by reading
\* a record, so it never writes a second move before it received one and a
\* read never has two records to return.
C21_AtMostOneMoveInFlight ==
    /\ [](HandshakeDone =>
             /\ \A p \in Peers : wire[p] = <<>> \/ OneRecordFor(p)
             /\ wire["host"] = <<>> \/ wire["joiner"] = <<>>)
    /\ [][\A p \in Peers :
             (HandshakeDone /\ wire'[Other(p)] # wire[Other(p)] /\ wire'[Other(p)] # <<>>)
                 => /\ wire[Other(p)] = <<>> /\ wire[p] = <<>>
                    /\ our_turn[p] /\ ~our_turn'[p]]_vars
    /\ [][\A p \in Peers :
             (InLoop(p) /\ ~our_turn[p] /\ our_turn'[p])
                 => (wire[p] # <<>> /\ wire'[p] = <<>>)]_vars

\* the joiner's second move is in flight after the host has answered its
\* first one
C21_Witness ==
    /\ HandshakeDone /\ InLoop("host") /\ InLoop("joiner")
    /\ sent["host"] # None
    /\ OneRecordFor("host")
    /\ wire["joiner"] = <<>>

\* C22: in every reachable state of a peer's MoveSelector promotion_move is
\* Some exactly when promotion_prompt is Some, and then selected_square is
\* Some too; hence the unwrap of promotion_prompt in on_update never fails.
C22_PromotionFieldsAgree ==
    /\ [](\A p \in Peers :
             /\ (promotion_move[p] # None) <=> (promotion_prompt[p] # None)
             /\ promotion_move[p] # None => selected_square[p] # None)
    /\ [][\A p \in Peers : \A ev \in Events :
             (our_turn[p] /\ Input(p, ev))
                 => ~on_update(selected_square[p], promotion_move[p],
                               promotion_prompt[p], moves[p], ev).panic]_vars

\* on_update has just stored the promotion from e7 and opened the prompt, or
\* has just left both in place
C22_Witness ==
    \E p \in Peers :
        /\ pc[p] = "poll"
        /\ promotion_move[p] # None
        /\ is_promotion(promotion_move[p][1])
        /\ promotion_prompt[p] # None
        /\ selected_square[p] = Some(12)

====
